---- MODULE Spec2Model ----
(***************************************************************************)
(* Model of clip2ai.py: a global hotkey starts one daemon thread per       *)
(* activation; each thread runs process_clipboard, which under the module  *)
(* lock _lock reads the clipboard, skips blank and already-processed text, *)
(* calls send_prompt_to_gemini and on a truthy reply overwrites the        *)
(* clipboard and records the reply in _last_processed.                     *)
(***************************************************************************)
EXTENDS Integers, Sequences, FiniteSets, TLC

\* ---------------------------------------------------------------- bounds
\* Number of hotkey activations (one thread each) explored.
MaxTriggers == 3

\* ---------------------------------------------------------------- values
\* Characters of a text; " " stands for every whitespace character.
Whitespace == {" "}

\* Python str values, as sequences of characters: the empty string, a
\* whitespace-only string, two different non-blank strings, and a non-blank
\* string with leading whitespace (unequal to its stripped form).
Texts == {<<>>, <<" ">>, <<"a">>, <<"b">>, <<" ", "a">>}

\* Python None, a value not computed yet, a clipboard value that is not a
\* str, and an attribute access that raises; one-element sequences no text
\* is equal to.
None == <<"None">>
Pending == <<"Pending">>
NonText == <<"NonText">>
Raises == <<"Raises">>

\* What pyperclip.paste() can hand back.
ClipValues == Texts \cup {NonText}

Threads == 1..MaxTriggers

\* ------------------------------------------------------- pure functions
\* str.lstrip / str.rstrip / str.strip on whitespace.
RECURSIVE LStrip(_)
LStrip(s) ==
    IF s = <<>> THEN s
    ELSE IF Head(s) \in Whitespace THEN LStrip(Tail(s)) ELSE s

RECURSIVE RStrip(_)
RStrip(s) ==
    IF s = <<>> THEN s
    ELSE IF s[Len(s)] \in Whitespace THEN RStrip(SubSeq(s, 1, Len(s) - 1)) ELSE s

Strip(s) == RStrip(LStrip(s))

\* isinstance(text, str)
IsStr(v) == v \in Texts

\* Variant of IsBlank: compares with "" without stripping.
IsBlank_no_strip(v) == ~IsStr(v) \/ v = <<>>

\* `not isinstance(text, str) or text.strip() == ""`
IsBlank(v) == ~IsStr(v) \/ Strip(v) = <<>>

\* Python truthiness of a reply: None and "" are falsy.
Truthy(v) == v # None /\ v # <<>>

\* What one access path of a response object can do: raise, give None,
\* or give a text.
ShapeValues == Texts \cup {None, Raises}

\* A response payload: the outcome of resp.text, of
\* resp.candidates[0].content.parts[0].text and of resp.parts[0].text.
Responses == [text : ShapeValues, candidates : ShapeValues, parts : ShapeValues]

\* Variant of extract_text_from_response: looks at the candidates first.
extract_candidates_first(resp) ==
    IF resp.candidates # Raises THEN resp.candidates
    ELSE IF resp.text # Raises THEN resp.text
    ELSE IF resp.parts # Raises THEN resp.parts
    ELSE None

\* extract_text_from_response: nested try/except, each level returns
\* whatever its access yields unless the access raises.
extract_text_from_response(resp) ==
    IF resp.text # Raises THEN resp.text
    ELSE IF resp.candidates # Raises THEN resp.candidates
    ELSE IF resp.parts # Raises THEN resp.parts
    ELSE None

\* What generate_content can do: raise (timeout, authentication error, rate
\* limit, malformed payload: no response object exists), or return a payload.
NoResponse == [text |-> Raises, candidates |-> Raises, parts |-> Raises]
ApiOutcomes ==
    {[raised |-> TRUE, response |-> NoResponse]}
        \cup [raised : {FALSE}, response : Responses]

\* How a remote call ended, as far as the client can tell: the network call
\* raised, every access path of the payload raised, the first path that did
\* not raise gave None, or it gave a text.
ApiKind(api) ==
    IF api.raised THEN "network"
    ELSE IF api.response = NoResponse THEN "no_shape"
    ELSE IF extract_text_from_response(api.response) = None THEN "absent"
    ELSE "text"

\* Variant of send_prompt_to_gemini: an exception of the call is passed on to
\* the caller.
send_prompt_to_gemini_reraise(api) ==
    IF api.raised THEN Raises ELSE extract_text_from_response(api.response)

\* send_prompt_to_gemini: any exception of the call is caught and turned
\* into None; otherwise the extracted value is returned.
send_prompt_to_gemini(api) ==
    IF api.raised THEN None ELSE extract_text_from_response(api.response)

\* ------------------------------------------------------------------ state
VARIABLES
    clipboard,        \* the system clipboard (external, shared with other applications)
    last_processed,   \* module global _last_processed
    lock,             \* module global _lock: TRUE while held
    listener,         \* "listening" | "stopped"
    exit_code,        \* -1 while the process runs, else the code given to sys.exit
    pc,               \* per thread: position in process_clipboard
    text,             \* per thread: local `text`
    model_response,   \* per thread: local `model_response`
    outcome,          \* per thread: the branch the run took
    calls,            \* per thread: calls of send_prompt_to_gemini made so far
    writes,           \* per thread: pyperclip.copy calls completed so far
    lastAtEntry,      \* per thread: _last_processed when the run took the lock
    dirty,            \* per thread: another application wrote the clipboard since
                      \*   this run's latest clipboard access
    sawReply,         \* per thread: the clipboard this run read was last written
                      \*   by the pipeline itself
    lastOutcome,      \* outcome of the run that released the lock most recently
    clip_from_pipeline, \* the latest clipboard write was a pyperclip.copy of a run
    prompt_text,      \* per thread: argument prompt_text of send_prompt_to_gemini
    api_kind,         \* per thread: how the run's remote call ended
    clobbered,        \* per thread: the run's pyperclip.copy replaced content that
                      \*   another application had put there since the run's read
    last_written,     \* the text of the latest pyperclip.copy of any run
    prevSent,         \* the text sent by the latest finished run that made a call
    response,         \* extract_text_from_response: argument resp
    out               \* send_prompt_to_gemini: local out

vars == <<clipboard, last_processed, lock, listener, exit_code, pc, text,
          model_response, outcome, calls, writes, lastAtEntry, dirty, sawReply,
          lastOutcome, clip_from_pipeline, prompt_text, api_kind, clobbered,
          last_written, prevSent, response, out>>

shared == <<clipboard, last_processed, lock>>
locals == <<text, model_response, outcome, calls, writes, lastAtEntry, dirty, sawReply>>
history == <<lastOutcome, clip_from_pipeline>>
main_state == <<listener, exit_code>>
extraction == <<response, out>>

NoKind == "none"

\* Positions at which a run is inside `with _lock:`.
LockedPCs == {"paste", "check_empty", "check_dup", "send", "generate",
              "branch", "copy", "assign", "release"}

NoOutcome == "none"

Init ==
    /\ clipboard \in ClipValues
    /\ last_processed = None
    /\ lock = FALSE
    /\ listener = "listening"
    /\ exit_code = -1
    /\ pc = [t \in Threads |-> "unborn"]
    /\ text = [t \in Threads |-> None]
    /\ model_response = [t \in Threads |-> None]
    /\ outcome = [t \in Threads |-> NoOutcome]
    /\ calls = [t \in Threads |-> 0]
    /\ writes = [t \in Threads |-> 0]
    /\ lastAtEntry = [t \in Threads |-> None]
    /\ dirty = [t \in Threads |-> FALSE]
    /\ sawReply = [t \in Threads |-> FALSE]
    /\ lastOutcome = NoOutcome
    /\ clip_from_pipeline = FALSE
    /\ prompt_text = [t \in Threads |-> None]
    /\ api_kind = [t \in Threads |-> NoKind]
    /\ clobbered = [t \in Threads |-> FALSE]
    /\ last_written = None
    /\ prevSent = None
    /\ response = NoResponse
    /\ out = Pending

\* Variant of Alive: the threads are not daemons and run on after sys.exit.
Alive_non_daemon == TRUE

\* The process is alive: daemon threads only run until sys.exit.
Alive == listener = "listening"

\* ---------------------------------------------------------------- actions
\* Variant of hotkey_callback: runs process_clipboard in the listener and
\* returns only when no run is pending or in progress.
hotkey_callback_blocking ==
    /\ listener = "listening"
    /\ \A u \in Threads : pc[u] \in {"unborn", "done"}
    /\ \E t \in Threads :
        /\ pc[t] = "unborn"
        /\ \A u \in Threads : u < t => pc[u] # "unborn"
        /\ pc' = [pc EXCEPT ![t] = "acquire"]
    /\ UNCHANGED <<shared, main_state, locals, history>>
    /\ UNCHANGED <<prompt_text, api_kind, clobbered, last_written, prevSent, extraction>>

\* hotkey_callback: start a daemon thread on process_clipboard and return.
\* Threads are numbered in the order their hotkey events fire.
hotkey_callback ==
    /\ listener = "listening"
    /\ \E t \in Threads :
        /\ pc[t] = "unborn"
        /\ \A u \in Threads : u < t => pc[u] # "unborn"
        /\ pc' = [pc EXCEPT ![t] = "acquire"]
    /\ UNCHANGED <<shared, main_state, locals, history>>
    /\ UNCHANGED <<prompt_text, api_kind, clobbered, last_written, prevSent, extraction>>

\* main: keyboard.wait returns (stop combination or KeyboardInterrupt),
\* the finally block calls sys.exit(0); daemon threads die with the process.
main_stop ==
    /\ listener = "listening"
    /\ listener' = "stopped"
    /\ exit_code' = 0
    /\ UNCHANGED <<shared, pc, locals, history>>
    /\ UNCHANGED <<prompt_text, api_kind, clobbered, last_written, prevSent, extraction>>

\* Another application (or the user) puts something on the clipboard.
third_party_copy ==
    /\ Alive
    /\ \E c \in ClipValues :
        /\ clipboard' = c
    /\ dirty' = [t \in Threads |-> pc[t] \in LockedPCs \ {"paste"}]
    /\ clip_from_pipeline' = FALSE
    /\ UNCHANGED <<last_processed, lock, main_state, pc, text, model_response,
                   outcome, calls, writes, lastAtEntry, sawReply, lastOutcome>>
    /\ UNCHANGED <<prompt_text, api_kind, clobbered, last_written, prevSent, extraction>>

\* Variant of lock_acquire: enters the section without waiting for the lock.
lock_acquire_unguarded(t) ==
    /\ Alive
    /\ pc[t] = "acquire"
    /\ lock' = TRUE
    /\ pc' = [pc EXCEPT ![t] = "paste"]
    /\ lastAtEntry' = [lastAtEntry EXCEPT ![t] = last_processed]
    /\ UNCHANGED <<clipboard, last_processed, main_state, text, model_response,
                   outcome, calls, writes, dirty, sawReply, history>>
    /\ UNCHANGED <<prompt_text, api_kind, clobbered, last_written, prevSent, extraction>>

\* `with _lock:` entry: blocks until the lock is free, then takes it.
\* threading.Lock grants the lock to any one waiter, in no particular order.
lock_acquire(t) ==
    /\ Alive
    /\ pc[t] = "acquire"
    /\ lock = FALSE
    /\ lock' = TRUE
    /\ pc' = [pc EXCEPT ![t] = "paste"]
    /\ lastAtEntry' = [lastAtEntry EXCEPT ![t] = last_processed]
    /\ UNCHANGED <<clipboard, last_processed, main_state, text, model_response,
                   outcome, calls, writes, dirty, sawReply, history>>
    /\ UNCHANGED <<prompt_text, api_kind, clobbered, last_written, prevSent, extraction>>

\* Variant of paste: explicit acquire/release without try/finally, so an
\* exception of pyperclip.paste ends the thread with the lock still held.
paste_no_finally(t) ==
    /\ Alive
    /\ pc[t] = "paste"
    /\ \/ /\ text' = [text EXCEPT ![t] = clipboard]
          /\ dirty' = [dirty EXCEPT ![t] = FALSE]
          /\ sawReply' = [sawReply EXCEPT ![t] = clip_from_pipeline]
          /\ pc' = [pc EXCEPT ![t] = "check_empty"]
          /\ UNCHANGED lastOutcome
       \/ /\ lastOutcome' = "raised"
          /\ pc' = [pc EXCEPT ![t] = "done"]
          /\ UNCHANGED <<text, dirty, sawReply>>
    /\ UNCHANGED <<shared, main_state, model_response, outcome, calls, writes,
                   lastAtEntry, clip_from_pipeline>>
    /\ UNCHANGED <<prompt_text, api_kind, clobbered, last_written, prevSent, extraction>>

\* text = pyperclip.paste(); the call may raise, which leaves the with block.
paste(t) ==
    /\ Alive
    /\ pc[t] = "paste"
    /\ \/ /\ text' = [text EXCEPT ![t] = clipboard]
          /\ dirty' = [dirty EXCEPT ![t] = FALSE]
          /\ sawReply' = [sawReply EXCEPT ![t] = clip_from_pipeline]
          /\ pc' = [pc EXCEPT ![t] = "check_empty"]
          /\ UNCHANGED outcome
       \/ /\ outcome' = [outcome EXCEPT ![t] = "raised"]
          /\ pc' = [pc EXCEPT ![t] = "release"]
          /\ UNCHANGED <<text, dirty, sawReply>>
    /\ UNCHANGED <<shared, main_state, model_response, calls, writes,
                   lastAtEntry, history>>
    /\ UNCHANGED <<prompt_text, api_kind, clobbered, last_written, prevSent, extraction>>

\* if not isinstance(text, str) or text.strip() == "": return
check_empty(t) ==
    /\ Alive
    /\ pc[t] = "check_empty"
    /\ IF IsBlank(text[t])
       THEN /\ outcome' = [outcome EXCEPT ![t] = "empty"]
            /\ pc' = [pc EXCEPT ![t] = "release"]
       ELSE /\ pc' = [pc EXCEPT ![t] = "check_dup"]
            /\ UNCHANGED outcome
    /\ UNCHANGED <<shared, main_state, text, model_response, calls, writes,
                   lastAtEntry, dirty, sawReply, history>>
    /\ UNCHANGED <<prompt_text, api_kind, clobbered, last_written, prevSent, extraction>>

\* Variant of check_dup: `text is _last_processed`, an identity test that a
\* freshly pasted string never passes.
check_dup_identity(t) ==
    /\ Alive
    /\ pc[t] = "check_dup"
    /\ pc' = [pc EXCEPT ![t] = "send"]
    /\ UNCHANGED <<shared, main_state, text, model_response, outcome, calls,
                   writes, lastAtEntry, dirty, sawReply, history>>
    /\ UNCHANGED <<prompt_text, api_kind, clobbered, last_written, prevSent, extraction>>

\* if text == _last_processed: return
check_dup(t) ==
    /\ Alive
    /\ pc[t] = "check_dup"
    /\ IF text[t] = last_processed
       THEN /\ outcome' = [outcome EXCEPT ![t] = "dup"]
            /\ pc' = [pc EXCEPT ![t] = "release"]
       ELSE /\ pc' = [pc EXCEPT ![t] = "send"]
            /\ UNCHANGED outcome
    /\ UNCHANGED <<shared, main_state, text, model_response, calls, writes,
                   lastAtEntry, dirty, sawReply, history>>
    /\ UNCHANGED <<prompt_text, api_kind, clobbered, last_written, prevSent, extraction>>

\* model_response = send_prompt_to_gemini(text): the call starts and the
\* thread blocks in generate_content.
send(t) ==
    /\ Alive
    /\ pc[t] = "send"
    /\ calls' = [calls EXCEPT ![t] = @ + 1]
    /\ pc' = [pc EXCEPT ![t] = "generate"]
    /\ UNCHANGED <<shared, main_state, text, model_response, outcome, writes,
                   lastAtEntry, dirty, sawReply, history>>
    /\ prompt_text' = [prompt_text EXCEPT ![t] = text[t]]
    /\ UNCHANGED <<api_kind, clobbered, last_written, prevSent, extraction>>

\* generate_content returns or raises; send_prompt_to_gemini returns.
generate(t) ==
    /\ Alive
    /\ pc[t] = "generate"
    /\ \E api \in ApiOutcomes :
        /\ model_response' = [model_response EXCEPT ![t] = send_prompt_to_gemini(api)]
        /\ api_kind' = [api_kind EXCEPT ![t] = ApiKind(api)]
    /\ pc' = [pc EXCEPT ![t] = "branch"]
    /\ UNCHANGED <<shared, main_state, text, outcome, calls, writes,
                   lastAtEntry, dirty, sawReply, history>>
    /\ UNCHANGED <<prompt_text, clobbered, last_written, prevSent, extraction>>

\* Variant of branch: on failure the text that was sent is remembered as
\* processed.
branch_marks_input(t) ==
    /\ Alive
    /\ pc[t] = "branch"
    /\ IF Truthy(model_response[t])
       THEN /\ pc' = [pc EXCEPT ![t] = "copy"]
            /\ UNCHANGED <<outcome, last_processed>>
       ELSE /\ outcome' = [outcome EXCEPT ![t] = "failed"]
            /\ last_processed' = text[t]
            /\ pc' = [pc EXCEPT ![t] = "release"]
    /\ UNCHANGED <<clipboard, lock, main_state, text, model_response, calls,
                   writes, lastAtEntry, dirty, sawReply, history>>
    /\ UNCHANGED <<prompt_text, api_kind, clobbered, last_written, prevSent, extraction>>

\* Variant of branch: the failure path ends the thread without releasing
\* the lock.
branch_failure_keeps_lock(t) ==
    /\ Alive
    /\ pc[t] = "branch"
    /\ IF Truthy(model_response[t])
       THEN /\ pc' = [pc EXCEPT ![t] = "copy"]
            /\ UNCHANGED lastOutcome
       ELSE /\ lastOutcome' = "failed"
            /\ pc' = [pc EXCEPT ![t] = "done"]
    /\ UNCHANGED <<shared, main_state, text, model_response, outcome, calls,
                   writes, lastAtEntry, dirty, sawReply, clip_from_pipeline>>
    /\ UNCHANGED <<prompt_text, api_kind, clobbered, last_written, prevSent, extraction>>

\* Variant of branch: a failed call is retried once before giving up.
branch_retry(t) ==
    /\ Alive
    /\ pc[t] = "branch"
    /\ IF Truthy(model_response[t])
       THEN /\ pc' = [pc EXCEPT ![t] = "copy"]
            /\ UNCHANGED outcome
       ELSE IF calls[t] < 2
       THEN /\ pc' = [pc EXCEPT ![t] = "send"]
            /\ UNCHANGED outcome
       ELSE /\ outcome' = [outcome EXCEPT ![t] = "failed"]
            /\ pc' = [pc EXCEPT ![t] = "release"]
    /\ UNCHANGED <<shared, main_state, text, model_response, calls, writes,
                   lastAtEntry, dirty, sawReply, history>>
    /\ UNCHANGED <<prompt_text, api_kind, clobbered, last_written, prevSent, extraction>>

\* if model_response: ... else: logging.error(...)
branch(t) ==
    /\ Alive
    /\ pc[t] = "branch"
    /\ IF Truthy(model_response[t])
       THEN /\ pc' = [pc EXCEPT ![t] = "copy"]
            /\ UNCHANGED outcome
       ELSE /\ outcome' = [outcome EXCEPT ![t] = "failed"]
            /\ pc' = [pc EXCEPT ![t] = "release"]
    /\ UNCHANGED <<shared, main_state, text, model_response, calls, writes,
                   lastAtEntry, dirty, sawReply, history>>
    /\ UNCHANGED <<prompt_text, api_kind, clobbered, last_written, prevSent, extraction>>

\* Variant of copy: writes the reply with surrounding whitespace removed.
copy_stripped(t) ==
    /\ Alive
    /\ pc[t] = "copy"
    /\ \/ /\ clipboard' = Strip(model_response[t])
          /\ writes' = [writes EXCEPT ![t] = @ + 1]
          /\ dirty' = [dirty EXCEPT ![t] = FALSE]
          /\ clip_from_pipeline' = TRUE
          /\ clobbered' = [clobbered EXCEPT ![t] = dirty[t]]
          /\ last_written' = Strip(model_response[t])
          /\ pc' = [pc EXCEPT ![t] = "assign"]
          /\ UNCHANGED outcome
       \/ /\ outcome' = [outcome EXCEPT ![t] = "raised"]
          /\ pc' = [pc EXCEPT ![t] = "release"]
          /\ UNCHANGED <<clipboard, writes, dirty, clip_from_pipeline,
                         clobbered, last_written>>
    /\ UNCHANGED <<last_processed, lock, main_state, text, model_response,
                   calls, lastAtEntry, sawReply, lastOutcome>>
    /\ UNCHANGED <<prompt_text, api_kind, prevSent, extraction>>

\* Variant of copy: reads the clipboard again and writes the reply only if
\* the clipboard still holds the text that was sent.
copy_if_unchanged(t) ==
    /\ Alive
    /\ pc[t] = "copy"
    /\ \/ /\ clipboard = text[t]
          /\ clipboard' = model_response[t]
          /\ writes' = [writes EXCEPT ![t] = @ + 1]
          /\ dirty' = [dirty EXCEPT ![t] = FALSE]
          /\ clip_from_pipeline' = TRUE
          /\ clobbered' = [clobbered EXCEPT ![t] = dirty[t]]
          /\ last_written' = model_response[t]
          /\ pc' = [pc EXCEPT ![t] = "assign"]
          /\ UNCHANGED outcome
       \/ /\ clipboard # text[t]
          /\ outcome' = [outcome EXCEPT ![t] = "skipped"]
          /\ pc' = [pc EXCEPT ![t] = "release"]
          /\ UNCHANGED <<clipboard, writes, dirty, clip_from_pipeline,
                         clobbered, last_written>>
       \/ /\ outcome' = [outcome EXCEPT ![t] = "raised"]
          /\ pc' = [pc EXCEPT ![t] = "release"]
          /\ UNCHANGED <<clipboard, writes, dirty, clip_from_pipeline,
                         clobbered, last_written>>
    /\ UNCHANGED <<last_processed, lock, main_state, text, model_response,
                   calls, lastAtEntry, sawReply, lastOutcome>>
    /\ UNCHANGED <<prompt_text, api_kind, prevSent, extraction>>

\* Variant of copy: the with block ends after the clipboard write, so that
\* _last_processed is assigned outside the lock.
copy_unlocks(t) ==
    /\ Alive
    /\ pc[t] = "copy"
    /\ \/ /\ clipboard' = model_response[t]
          /\ writes' = [writes EXCEPT ![t] = @ + 1]
          /\ dirty' = [dirty EXCEPT ![t] = FALSE]
          /\ clip_from_pipeline' = TRUE
          /\ clobbered' = [clobbered EXCEPT ![t] = dirty[t]]
          /\ last_written' = model_response[t]
          /\ lock' = FALSE
          /\ pc' = [pc EXCEPT ![t] = "assign"]
          /\ UNCHANGED outcome
       \/ /\ outcome' = [outcome EXCEPT ![t] = "raised"]
          /\ pc' = [pc EXCEPT ![t] = "release"]
          /\ UNCHANGED <<clipboard, writes, dirty, clip_from_pipeline,
                         clobbered, last_written, lock>>
    /\ UNCHANGED <<last_processed, main_state, text, model_response,
                   calls, lastAtEntry, sawReply, lastOutcome>>
    /\ UNCHANGED <<prompt_text, api_kind, prevSent, extraction>>

\* pyperclip.copy(model_response); the call may raise, which leaves the
\* with block before _last_processed is assigned.
copy(t) ==
    /\ Alive
    /\ pc[t] = "copy"
    /\ \/ /\ clipboard' = model_response[t]
          /\ writes' = [writes EXCEPT ![t] = @ + 1]
          /\ dirty' = [dirty EXCEPT ![t] = FALSE]
          /\ clip_from_pipeline' = TRUE
          /\ clobbered' = [clobbered EXCEPT ![t] = dirty[t]]
          /\ last_written' = model_response[t]
          /\ pc' = [pc EXCEPT ![t] = "assign"]
          /\ UNCHANGED outcome
       \/ /\ outcome' = [outcome EXCEPT ![t] = "raised"]
          /\ pc' = [pc EXCEPT ![t] = "release"]
          /\ UNCHANGED <<clipboard, writes, dirty, clip_from_pipeline,
                         clobbered, last_written>>
    /\ UNCHANGED <<last_processed, lock, main_state, text, model_response,
                   calls, lastAtEntry, sawReply, lastOutcome>>
    /\ UNCHANGED <<prompt_text, api_kind, prevSent, extraction>>

\* Variant of assign: remembers the text that was sent, not the reply.
assign_input(t) ==
    /\ Alive
    /\ pc[t] = "assign"
    /\ last_processed' = text[t]
    /\ outcome' = [outcome EXCEPT ![t] = "success"]
    /\ pc' = [pc EXCEPT ![t] = "release"]
    /\ UNCHANGED <<clipboard, lock, main_state, text, model_response, calls,
                   writes, lastAtEntry, dirty, sawReply, history>>
    /\ UNCHANGED <<prompt_text, api_kind, clobbered, last_written, prevSent, extraction>>

\* _last_processed = model_response
assign(t) ==
    /\ Alive
    /\ pc[t] = "assign"
    /\ last_processed' = model_response[t]
    /\ outcome' = [outcome EXCEPT ![t] = "success"]
    /\ pc' = [pc EXCEPT ![t] = "release"]
    /\ UNCHANGED <<clipboard, lock, main_state, text, model_response, calls,
                   writes, lastAtEntry, dirty, sawReply, history>>
    /\ UNCHANGED <<prompt_text, api_kind, clobbered, last_written, prevSent, extraction>>

\* Leaving `with _lock:` by return, by falling off the end or by an
\* exception: the lock is released and the thread ends.
lock_release(t) ==
    /\ Alive
    /\ pc[t] = "release"
    /\ lock' = FALSE
    /\ lastOutcome' = outcome[t]
    /\ pc' = [pc EXCEPT ![t] = "done"]
    /\ text' = [text EXCEPT ![t] = None]
    /\ model_response' = [model_response EXCEPT ![t] = None]
    /\ outcome' = [outcome EXCEPT ![t] = NoOutcome]
    /\ calls' = [calls EXCEPT ![t] = 0]
    /\ writes' = [writes EXCEPT ![t] = 0]
    /\ lastAtEntry' = [lastAtEntry EXCEPT ![t] = None]
    /\ dirty' = [dirty EXCEPT ![t] = FALSE]
    /\ sawReply' = [sawReply EXCEPT ![t] = FALSE]
    /\ UNCHANGED <<clipboard, last_processed, main_state, clip_from_pipeline>>
    /\ prompt_text' = [prompt_text EXCEPT ![t] = None]
    /\ api_kind' = [api_kind EXCEPT ![t] = NoKind]
    /\ clobbered' = [clobbered EXCEPT ![t] = FALSE]
    /\ prevSent' = IF calls[t] > 0 THEN prompt_text[t] ELSE prevSent
    /\ UNCHANGED <<last_written, extraction>>

\* One step of the thread running process_clipboard.
process_clipboard(t) ==
    \/ lock_acquire(t)
    \/ paste(t)
    \/ check_empty(t)
    \/ check_dup(t)
    \/ send(t)
    \/ generate(t)
    \/ branch(t)
    \/ copy(t)
    \/ assign(t)
    \/ lock_release(t)

Next ==
    \/ hotkey_callback
    \/ main_stop
    \/ third_party_copy
    \/ \E t \in Threads : process_clipboard(t)

Spec == Init /\ [][Next]_vars

\* ------------------------------------------------------ runs to the end
\* The steps of a run inside `with _lock:`; none of them waits for another
\* thread, and generate is the remote call returning.
section_step(t) ==
    \/ paste(t)
    \/ check_empty(t)
    \/ check_dup(t)
    \/ send(t)
    \/ generate(t)
    \/ branch(t)
    \/ copy(t)
    \/ assign(t)
    \/ lock_release(t)

\* The process while the stop combination is not pressed.
NextRunning ==
    \/ hotkey_callback
    \/ third_party_copy
    \/ \E t \in Threads : lock_acquire(t)
    \/ \E t \in Threads : section_step(t)

\* Every started thread keeps being scheduled and every remote call returns
\* (weak fairness of the steps inside the section); the lock is granted
\* fairly (strong fairness of taking it: a waiter is not passed over forever).
SpecLive ==
    /\ Init
    /\ [][NextRunning]_vars
    /\ \A t \in Threads : WF_vars(section_step(t))
    /\ \A t \in Threads : SF_vars(lock_acquire(t))

\* ------------------------------------------------- extraction on its own
\* send_prompt_to_gemini after generate_content has returned a payload:
\* every payload shape is a possible start, no run is in progress.
ExtractInit ==
    /\ response \in Responses
    /\ out = Pending
    /\ clipboard = <<>>
    /\ last_processed = None
    /\ lock = FALSE
    /\ listener = "listening"
    /\ exit_code = -1
    /\ pc = [t \in Threads |-> "unborn"]
    /\ text = [t \in Threads |-> None]
    /\ model_response = [t \in Threads |-> None]
    /\ outcome = [t \in Threads |-> NoOutcome]
    /\ calls = [t \in Threads |-> 0]
    /\ writes = [t \in Threads |-> 0]
    /\ lastAtEntry = [t \in Threads |-> None]
    /\ dirty = [t \in Threads |-> FALSE]
    /\ sawReply = [t \in Threads |-> FALSE]
    /\ lastOutcome = NoOutcome
    /\ clip_from_pipeline = FALSE
    /\ prompt_text = [t \in Threads |-> None]
    /\ api_kind = [t \in Threads |-> NoKind]
    /\ clobbered = [t \in Threads |-> FALSE]
    /\ last_written = None
    /\ prevSent = None

\* out = extract_text_from_response(response)
extract ==
    /\ out = Pending
    /\ out' = extract_text_from_response(response)
    /\ UNCHANGED <<shared, main_state, pc, locals, history, prompt_text,
                   api_kind, clobbered, last_written, prevSent, response>>

SpecExtract == ExtractInit /\ [][extract]_vars

\* ------------------------------------------------------------ properties
\* The runs that are inside `with _lock:`.
InSection == {t \in Threads : pc[t] \in LockedPCs}

\* A str with at least one character.
NonEmptyText(v) == v \in Texts /\ Len(v) > 0

\* Clipboard content that is empty, whitespace-only or not text.
BlankContent(v) ==
    \/ v = NonText
    \/ v \in Texts /\ \A i \in 1..Len(v) : v[i] = " "

\* The run has read the clipboard (its local text holds what paste gave).
HasRead(t) == pc[t] \in LockedPCs /\ text[t] \in ClipValues

\* The run has left the remote call with reply model_response[t].
HasReply(t) == pc[t] \in {"branch", "copy", "assign", "release"} /\ calls[t] = 1

\* C1: mutual exclusion - in every reachable state at most one run is
\* between acquiring _lock and releasing it, and the lock is held whenever
\* a run is there; so no run reads the clipboard while another run is
\* between its read and its write or no-op.
C1_MutualExclusion ==
    /\ Cardinality(InSection) <= 1
    /\ InSection # {} => lock = TRUE

\* C1 witness: two triggers overlap, one run is blocked in the remote call
\* while the others wait for the lock.
C1_Witness ==
    \E t, u \in Threads :
        /\ t # u
        /\ pc[t] = "generate"
        /\ pc[u] = "acquire"

\* C2 as stated: for every text R the client returns (the empty string
\* included), a run that returns has left R on the clipboard (unless another
\* application wrote it since) and in _last_processed.
C2_AnyTextReply ==
    \A t \in Threads :
        (/\ pc[t] = "release"
         /\ HasReply(t)
         /\ model_response[t] \in Texts
         /\ outcome[t] # "raised")
        => /\ last_processed = model_response[t]
           /\ ~dirty[t] => clipboard = model_response[t]

\* C2 amended: for every non-empty text R the client returns, a run that
\* returns (its clipboard write did not raise) has left R in
\* _last_processed and, unless another application wrote the clipboard
\* after the run's write, on the clipboard.
C2_NonEmptyReply ==
    \A t \in Threads :
        (/\ pc[t] = "release"
         /\ HasReply(t)
         /\ NonEmptyText(model_response[t])
         /\ outcome[t] # "raised")
        => /\ last_processed = model_response[t]
           /\ writes[t] = 1
           /\ ~dirty[t] => clipboard = model_response[t]

\* C2 witness: a run that read "a" got the reply "b", wrote it and is about
\* to release the lock.
C2_Witness ==
    \E t \in Threads :
        /\ pc[t] = "release"
        /\ text[t] = <<"a">>
        /\ model_response[t] = <<"b">>
        /\ outcome[t] = "success"
        /\ ~dirty[t]
        /\ clipboard = <<"b">>

\* C3: on a failed remote call (the client yields no text: None, or the
\* empty string the run treats alike) the run writes nothing: at its end
\* the clipboard is what the run read (unless another application wrote
\* it) and _last_processed is what it was when the run began.
C3_FailureLeavesState ==
    \A t \in Threads :
        (/\ pc[t] = "release"
         /\ HasReply(t)
         /\ ~NonEmptyText(model_response[t]))
        => /\ writes[t] = 0
           /\ last_processed = lastAtEntry[t]
           /\ ~dirty[t] => clipboard = text[t]

\* C3 witness: a run that read "a" while _last_processed was "b" got no
\* text from the client and is about to release the lock.
C3_Witness ==
    \E t \in Threads :
        /\ pc[t] = "release"
        /\ calls[t] = 1
        /\ model_response[t] = None
        /\ text[t] = <<"a">>
        /\ lastAtEntry[t] = <<"b">>
        /\ clipboard = <<"a">>

\* C4: a run that read empty, whitespace-only or non-textual clipboard
\* content makes no remote call, writes neither the clipboard nor
\* _last_processed, and goes straight to releasing the lock.
C4_BlankIsNoOp ==
    \A t \in Threads :
        (/\ HasRead(t)
         /\ pc[t] \notin {"paste", "check_empty"}
         /\ BlankContent(text[t]))
        => /\ pc[t] = "release"
           /\ calls[t] = 0
           /\ writes[t] = 0
           /\ last_processed = lastAtEntry[t]
           /\ ~dirty[t] => clipboard = text[t]

\* C4 witness: a run read a whitespace-only clipboard while
\* _last_processed held a reply, and is about to release the lock.
C4_Witness ==
    \E t \in Threads :
        /\ pc[t] = "release"
        /\ text[t] = <<" ">>
        /\ outcome[t] = "empty"
        /\ last_processed = <<"b">>

\* C5: a run whose text read from the clipboard equals _last_processed
\* makes no remote call and writes neither the clipboard nor
\* _last_processed.
C5_Dedup ==
    \A t \in Threads :
        (/\ HasRead(t)
         /\ pc[t] \notin {"paste", "check_empty", "check_dup"}
         /\ text[t] \in Texts
         /\ text[t] = lastAtEntry[t])
        => /\ pc[t] = "release"
           /\ calls[t] = 0
           /\ writes[t] = 0
           /\ last_processed = lastAtEntry[t]
           /\ ~dirty[t] => clipboard = text[t]

\* C5 witness: a run read the non-blank text that _last_processed holds
\* and is about to release the lock.
C5_Witness ==
    \E t \in Threads :
        /\ pc[t] = "release"
        /\ text[t] = <<"b">>
        /\ last_processed = <<"b">>
        /\ outcome[t] = "dup"

\* C6: a run that reads a clipboard still holding what the pipeline wrote
\* last (no other application wrote it since) makes no remote call and no
\* write, however many runs follow; a remote call is made only by a run
\* whose clipboard was last written by someone else.
C6_OwnReplySuppressed ==
    \A t \in Threads :
        (HasRead(t) /\ sawReply[t]) => (calls[t] = 0 /\ writes[t] = 0)

\* C6 witness: after a success left "b" on the clipboard, a later run read
\* it back and skipped, while a further trigger is still queued behind it.
C6_Witness ==
    \E t, u \in Threads :
        /\ pc[t] = "release"
        /\ sawReply[t]
        /\ text[t] = <<"b">>
        /\ outcome[t] = "dup"
        /\ pc[u] = "acquire"

\* C7 as stated: runs enter the locked section in the order their hotkey
\* events fired - a later trigger's run is past the lock only when every
\* earlier trigger's run has completed.
C7_TriggerOrder ==
    \A t, u \in Threads :
        (t < u /\ pc[u] \in LockedPCs \cup {"done"}) => pc[t] = "done"

\* C7 amended: a run takes the lock and reads the clipboard only while
\* every other run is either still waiting (or unstarted) or has fully
\* completed and released; the order of entry is the order in which the
\* lock is obtained, which need not be the order of the hotkey events.
C7_SerializedInLockOrder ==
    [][\A t \in Threads :
          (pc[t] \in {"acquire", "paste"} /\ pc'[t] \in {"paste", "check_empty"}
              /\ pc'[t] # pc[t])
          => \A u \in Threads \ {t} : pc[u] \in {"unborn", "acquire", "done"}]_vars

\* C7 witness: the run of the second trigger has completed and the run of
\* the first trigger has only now read the clipboard.
C7_Witness ==
    /\ pc[2] = "done"
    /\ pc[1] = "check_empty"

\* C8: the lock is held only while some run is inside the section, so a
\* finished run never leaves it held, whichever way it ended; and whenever
\* no run is inside, every waiting run can take the lock.
C8_LockReleasedOnExit ==
    /\ lock = TRUE => InSection # {}
    /\ (Alive /\ InSection = {}) =>
          \A t \in Threads : pc[t] = "acquire" => ENABLED lock_acquire(t)

\* C8 witness: a run ended by an exception of a clipboard call, and a
\* later run has taken the lock.
C8_Witness ==
    /\ lastOutcome = "raised"
    /\ \E t \in Threads : pc[t] = "paste"

\* C9: while the listener is listening it can always accept the stop
\* combination and the next hotkey activation (as long as the model has an
\* activation left), also while a run is in the remote call and others wait;
\* and hotkey_callback neither takes the lock nor makes a remote call.
C9_ListenerNeverBlocked ==
    /\ [](listener = "listening" =>
            /\ ENABLED main_stop
            /\ (\E t \in Threads : pc[t] = "unborn") => ENABLED hotkey_callback)
    /\ [][hotkey_callback =>
            (lock' = lock /\ calls' = calls /\ InSection' = InSection)]_vars

\* C9 witness: one run is blocked in the remote call, another waits for
\* the lock, and the listener is listening with an activation to come.
C9_Witness ==
    /\ listener = "listening"
    /\ \E t, u, v \in Threads :
        /\ pc[t] = "generate"
        /\ pc[u] = "acquire"
        /\ pc[v] = "unborn"

\* The run is on the failure path of the remote call: in the call, or out
\* of it with no usable reply.
OnFailurePath(t) ==
    \/ pc[t] = "generate"
    \/ HasReply(t) /\ ~NonEmptyText(model_response[t])

\* C10: no step of a run whose remote call fails changes the listener or
\* ends the process; the failing run keeps _last_processed as it found it
\* and frees the lock when it ends; and after it, with the listener still
\* listening, the next hotkey press is accepted and a waiting run can start.
C10_FailureContained ==
    /\ [][\A t \in Threads :
            (OnFailurePath(t) /\ pc'[t] # pc[t])
            => /\ listener' = listener
               /\ exit_code' = exit_code
               /\ last_processed' = lastAtEntry[t]
               /\ pc'[t] = "done" => lock' = FALSE]_vars
    /\ []((lastOutcome = "failed" /\ listener = "listening" /\ InSection = {}) =>
            /\ lock = FALSE
            /\ (\E t \in Threads : pc[t] = "unborn") => ENABLED hotkey_callback
            /\ \A t \in Threads : pc[t] = "acquire" => ENABLED lock_acquire(t))

\* C10 witness: after a run whose remote call failed, a run started later
\* has reached the remote call, the listener still listening.
C10_Witness ==
    /\ lastOutcome = "failed"
    /\ listener = "listening"
    /\ exit_code = -1
    /\ \E t \in Threads : pc[t] = "generate"

\* The text of the first access path, in the order direct field, nested
\* candidate, alternate nested shape, that gives a text; None if none does.
FirstText(resp) ==
    IF resp.text \in Texts THEN resp.text
    ELSE IF resp.candidates \in Texts THEN resp.candidates
    ELSE IF resp.parts \in Texts THEN resp.parts
    ELSE None

\* C11: extraction returns the text of the first of the three shapes, in
\* priority order, that yields a non-absent text value, and reports no text
\* only if none of them yields one.
C11_FirstTextWins ==
    out # Pending => out = FirstText(response)

\* C12: whenever the direct field holds a text, extraction returns that
\* text, whatever the nested shapes hold.
C12_DirectFieldFirst ==
    (out # Pending /\ response.text \in Texts) => out = response.text

\* C12 witness: the direct field holds "a", both nested shapes hold other
\* texts, and extraction has returned "a".
C12_Witness ==
    /\ response.text = <<"a">>
    /\ response.candidates = <<"b">>
    /\ response.parts = <<" ", "a">>
    /\ out = <<"a">>

\* C13: send_prompt_to_gemini hands its caller a text or None, never an
\* exception; a failed network call, a payload none of whose shapes can be
\* read and a payload whose value is absent all give the same None, and the
\* run treats them alike: no clipboard write, _last_processed unchanged.
C13_UniformFailure ==
    \A t \in Threads :
        HasReply(t) =>
            /\ model_response[t] \in Texts \cup {None}
            /\ api_kind[t] \in {"network", "no_shape", "absent"} =>
                  /\ model_response[t] = None
                  /\ pc[t] \in {"branch", "release"}
                  /\ writes[t] = 0
                  /\ last_processed = lastAtEntry[t]
                  /\ ~dirty[t] => clipboard = text[t]

\* C13 witness: a run whose payload had no readable shape ends as a failed
\* run with the clipboard as it read it.
C13_Witness ==
    \E t \in Threads :
        /\ pc[t] = "release"
        /\ api_kind[t] = "no_shape"
        /\ outcome[t] = "failed"
        /\ text[t] = <<"a">>
        /\ clipboard = <<"a">>

\* C14: _last_processed is None until a run assigns it, it is assigned only
\* by a run whose remote call gave a non-empty text that the run has just
\* written to the clipboard, and whenever the lock is free it equals the text
\* the pipeline wrote to the clipboard most recently (None if it wrote none).
C14_Provenance ==
    /\ []((\A t \in Threads : pc[t] \in {"unborn", "acquire"}) => last_processed = None)
    /\ [](lock = FALSE => last_processed = last_written)
    /\ [][last_processed' # last_processed =>
            \E t \in Threads :
                /\ pc[t] = "assign"
                /\ api_kind[t] = "text"
                /\ NonEmptyText(model_response[t])
                /\ writes[t] = 1
                /\ last_processed' = model_response[t]]_vars

\* C14 witness: a success wrote "b"; a later run that read "a" failed; the
\* lock is free and _last_processed still holds "b", not the text read.
C14_Witness ==
    /\ lock = FALSE
    /\ lastOutcome = "failed"
    /\ prevSent = <<"a">>
    /\ last_processed = <<"b">>
    /\ last_written = <<"b">>

\* C15: while a run is reading the clipboard or comparing with
\* _last_processed, no other run is between its clipboard write and its
\* assignment of _last_processed, and _last_processed equals the pipeline's
\* most recent clipboard write (None if there was none).
C15_NoStaleObservation ==
    \A t \in Threads :
        pc[t] \in {"paste", "check_empty", "check_dup"} =>
            /\ last_processed = last_written
            /\ \A u \in Threads \ {t} : pc[u] # "assign"

\* C15 witness: after a success that wrote "b", a later run compares the
\* text "a" it read with _last_processed.
C15_Witness ==
    \E t \in Threads :
        /\ pc[t] = "check_dup"
        /\ text[t] = <<"a">>
        /\ last_written = <<"b">>
        /\ lastOutcome = "success"

\* C16: the listener is listening or stopped; once stopped it stays
\* stopped, the exit code is 0, no hotkey activation is accepted, no run
\* starts and no run in flight takes another step.
C16_StopSignal ==
    /\ [](listener \in {"listening", "stopped"})
    /\ [](listener = "listening" => exit_code = -1)
    /\ [](listener = "stopped" =>
            /\ exit_code = 0
            /\ ~ENABLED hotkey_callback
            /\ \A t \in Threads : ~ENABLED process_clipboard(t))
    /\ [][listener = "stopped" =>
            (listener' = "stopped" /\ exit_code' = 0 /\ pc' = pc /\ writes' = writes)]_vars

\* C16 witness: the process has stopped while one run was about to write
\* the clipboard and another was still waiting for the lock.
C16_Witness ==
    /\ listener = "stopped"
    /\ exit_code = 0
    /\ \E t, u \in Threads :
        /\ pc[t] = "copy"
        /\ pc[u] = "acquire"

\* C17: each accepted hotkey activation starts exactly one run and changes
\* nothing else, whatever the other runs are doing; and, the process not
\* being stopped, remote calls returning and the lock granted fairly, every
\* started run eventually takes the lock and ends. A started run is pending
\* from its start until it has ended, so this says that again and again no
\* run is pending.
C17_Progress ==
    /\ [][hotkey_callback =>
            \E t \in Threads :
                /\ pc[t] = "unborn"
                /\ pc' = [pc EXCEPT ![t] = "acquire"]]_vars
    /\ []<>(\A t \in Threads : pc[t] \in {"unborn", "done"})

\* C17 witness: three activations arrived while the first run was still in
\* its remote call, and now all three runs have ended.
C17_Witness ==
    /\ \A t \in Threads : pc[t] = "done"
    /\ lock = FALSE

\* C18: a run makes at most one call of the remote client (a failed call
\* is not repeated), and at most one remote call is in flight at any time.
C18_SingleFlight ==
    /\ \A t \in Threads : calls[t] <= 1
    /\ \A t \in Threads : pc[t] = "generate" => calls[t] = 1
    /\ Cardinality({t \in Threads : pc[t] = "generate"}) <= 1

\* C18 witness: a run whose one call failed is ending without a second
\* call, while another run waits for the lock.
C18_Witness ==
    \E t, u \in Threads :
        /\ pc[t] = "release"
        /\ outcome[t] = "failed"
        /\ calls[t] = 1
        /\ pc[u] = "acquire"

\* C19: a run that has read a text which an earlier run already sent to
\* the remote client (whether that call failed or produced a reply), and
\* which is not the reply the pipeline wrote last, does not skip: once past
\* its checks it sends that text to the remote client again.
C19_DedupKeyedOnReplies ==
    \A t \in Threads :
        (/\ HasRead(t)
         /\ pc[t] \notin {"paste", "check_empty", "check_dup"}
         /\ text[t] = prevSent
         /\ text[t] # last_written)
        => \/ pc[t] = "send"
           \/ calls[t] = 1 /\ prompt_text[t] = text[t]

\* C19 witness: the previous run sent "a" and failed; this run has read
\* "a" again and is in the remote call with it.
C19_Witness ==
    \E t \in Threads :
        /\ pc[t] = "generate"
        /\ text[t] = <<"a">>
        /\ prompt_text[t] = <<"a">>
        /\ prevSent = <<"a">>
        /\ lastOutcome = "failed"

\* C20: the text a run sends is the text it read at its start, whatever
\* has happened to the clipboard since; a run whose clipboard write does not
\* raise writes its reply whether or not another application changed the
\* clipboard during the call, and then assigns the reply to _last_processed;
\* content that another application put there during the call is replaced.
C20_UnconditionalWriteBack ==
    /\ [](\A t \in Threads :
            (pc[t] \in {"generate", "branch", "copy", "assign", "release"} /\ calls[t] = 1)
            => prompt_text[t] = text[t])
    /\ [](\A t \in Threads :
            (pc[t] \in {"assign", "release"} /\ clobbered[t] /\ ~dirty[t])
            => clipboard = model_response[t])
    /\ [][\A t \in Threads :
            (pc[t] = "copy" /\ pc'[t] # "copy" /\ outcome'[t] # "raised")
            => (pc'[t] = "assign" /\ clipboard' = model_response[t])]_vars
    /\ [][\A t \in Threads :
            (pc[t] = "assign" /\ pc'[t] # "assign")
            => (last_processed' = model_response[t] /\ clipboard' = clipboard)]_vars

\* C20 witness: a run read "a"; during its call another application put
\* something else on the clipboard; the run replaced that with its reply
\* "b", which is now on the clipboard and in _last_processed.
C20_Witness ==
    \E t \in Threads :
        /\ pc[t] = "release"
        /\ clobbered[t]
        /\ ~dirty[t]
        /\ text[t] = <<"a">>
        /\ model_response[t] = <<"b">>
        /\ clipboard = <<"b">>
        /\ last_processed = <<"b">>

====
